---- MODULE Spec2Model ----
(***************************************************************************)
(* Model of python/utils.py of deep-action-proposals: the C3D input-list   *)
(* generator, the C3D feature-dump reader, stacker and batch stacker, the  *)
(* pooling helpers (feature_1dpyramid, feature_1dconcat) and the segment   *)
(* utilities (segment_format, segment_iou, segment_unit_scaling).          *)
(*                                                                         *)
(* numpy float64 values are modelled exactly as numbers n/d * sqrt(k):     *)
(* a record [n, d, k] with d > 0, gcd(n, d) = 1 and k >= 1 square-free.    *)
(* k = 1 is a plain rational; k > 1 only arises from the L2 normalisation  *)
(* of a pooled region.  The IEEE specials are d = 0: n = 1 is +inf,        *)
(* n = -1 is -inf and n = 0 is NaN.                                        *)
(***************************************************************************)
EXTENDS Integers, Sequences, FiniteSets, TLC

(***************************************************************************)
(* Bounds of the model.                                                    *)
(***************************************************************************)
MaxFiles == 3      \* longest `files` list handed to c3d_stack_feature
FeatDim == 2       \* values per dump on the modelled disk (the d of [m, d])
MaxCoord == 1      \* largest frame coordinate of a segment
MaxSegs == 2       \* most rows of a segment batch
MaxTargets == 1    \* most target segments handed to segment_iou
MaxRows == 3       \* most rows of a matrix handed to the pooling helpers
MaxLevels == 2     \* highest pyramid level
MaxChunks == 3     \* most chunks of feature_1dconcat
MaxT == 3          \* largest total duration T of segment_unit_scaling
MaxWords == 7      \* most 32-bit words of a dump handed to c3d_read_feature
MaxBatch == 2      \* most segments of a table handed to the batch functions
MaxDur == 3        \* longest duration of a segment of such a table
MaxWindow == 2     \* largest t_size and largest t_stride / step_size

(***************************************************************************)
(* float64 arithmetic                                                      *)
(***************************************************************************)
Abs(x) == IF x < 0 THEN -x ELSE x

Sign(x) == IF x < 0 THEN -1 ELSE IF x > 0 THEN 1 ELSE 0

RECURSIVE Gcd(_, _)
Gcd(a, b) == IF b = 0 THEN a ELSE Gcd(b, a % b)

\* the float n/d, reduced; a zero denominator gives inf, -inf or NaN
Frac(n, d) ==
    IF d = 0 THEN [n |-> Sign(n), d |-> 0, k |-> 1]
    ELSE LET g == Gcd(Abs(n), Abs(d))
         IN  [n |-> Sign(d) * (n \div g), d |-> Abs(d) \div g, k |-> 1]

FInt(n) == [n |-> n, d |-> 1, k |-> 1]

NaN == [n |-> 0, d |-> 0, k |-> 1]

IsNaN(a) == a.d = 0 /\ a.n = 0

IsInf(a) == a.d = 0 /\ a.n # 0

IsFinite(a) == a.d > 0

FAdd(a, b) ==
    IF IsNaN(a) \/ IsNaN(b) THEN NaN
    ELSE IF IsInf(a) /\ IsInf(b) THEN (IF a.n = b.n THEN a ELSE NaN)
    ELSE IF IsInf(a) THEN a
    ELSE IF IsInf(b) THEN b
    ELSE Frac(a.n * b.d + b.n * a.d, a.d * b.d)

FNeg(a) == [a EXCEPT !.n = -a.n]

FSub(a, b) == FAdd(a, FNeg(b))

FMul(a, b) ==
    IF IsNaN(a) \/ IsNaN(b) THEN NaN
    ELSE IF IsInf(a) \/ IsInf(b) THEN Frac(Sign(a.n) * Sign(b.n), 0)
    ELSE Frac(a.n * b.n, a.d * b.d)

\* IEEE division: x/0 is +-inf, 0/0 and inf/inf are NaN (numpy warns, no raise)
FDiv(a, b) ==
    IF IsNaN(a) \/ IsNaN(b) THEN NaN
    ELSE IF IsInf(a) THEN (IF IsInf(b) THEN NaN
                           ELSE Frac(a.n * (IF b.n < 0 THEN -1 ELSE 1), 0))
    ELSE IF IsInf(b) THEN FInt(0)
    ELSE Frac(a.n * b.d, a.d * b.n)

FLess(a, b) ==
    IF IsNaN(a) \/ IsNaN(b) THEN FALSE
    ELSE IF IsInf(a) THEN a.n < 0 /\ a # b
    ELSE IF IsInf(b) THEN b.n > 0
    ELSE a.n * b.d < b.n * a.d

\* np.maximum / np.minimum: NaN propagates
FMax(a, b) == IF IsNaN(a) THEN a ELSE IF IsNaN(b) THEN b
              ELSE IF FLess(a, b) THEN b ELSE a

FMin(a, b) == IF IsNaN(a) THEN a ELSE IF IsNaN(b) THEN b
              ELSE IF FLess(b, a) THEN b ELSE a

\* ndarray.clip(0)
FClip0(a) == IF IsNaN(a) THEN a ELSE FMax(a, FInt(0))

FloorDiv(n, d) == n \div d

\* np.ceil
FCeil(a) == IF ~IsFinite(a) THEN a ELSE FInt(-FloorDiv(-a.n, a.d))

\* np.round: round half to even
FRound(a) ==
    IF ~IsFinite(a) THEN a
    ELSE LET f == FloorDiv(a.n, a.d)
             r2 == 2 * (a.n - f * a.d)
         IN  IF r2 < a.d THEN FInt(f)
             ELSE IF r2 > a.d THEN FInt(f + 1)
             ELSE IF f % 2 = 0 THEN FInt(f) ELSE FInt(f + 1)

(***************************************************************************)
(* ndarrays and call outcomes                                              *)
(*                                                                         *)
(* An ndarray is [shape, v]: shape is the tuple of axis lengths and v the  *)
(* nested tuple of its float64 elements.  A call either returns a value or *)
(* raises an exception, named by its Python class.                         *)
(***************************************************************************)
Arr(shape, v) == [shape |-> shape, v |-> v]

Ndim(X) == Len(X.shape)

None == [shape |-> <<>>, v |-> <<>>, none |-> TRUE]

\* an optional argument (init, files, pool_type): None, or a value
Absent == [some |-> FALSE, v |-> <<>>]

Some(v) == [some |-> TRUE, v |-> v]

Return(value) == [kind |-> "return", err |-> "", msg |-> "", value |-> value]

\* err is the exception's class, msg what its message says
Raise(err, msg) == [kind |-> "raise", err |-> err, msg |-> msg, value |-> None]

\* the shape of np.stack([X[:, 0], X[:, 1]], axis=-1)
StackedShape(X) == <<X.shape[1]>> \o SubSeq(X.shape, 3, Len(X.shape)) \o <<2>>

\* X[:, j] of an array of two or three axes (j counted from 0 as in Python)
Col(X, j) == [i \in 1..X.shape[1] |-> X.v[i][j + 1]]

\* an elementwise operation on slices X[:, j] of `depth` axes; op names it
Apply2(op, a, b) == IF op = "add" THEN FAdd(a, b) ELSE FSub(a, b)

EW2(op, A, B, depth) ==
    IF depth = 1 THEN [i \in DOMAIN A |-> Apply2(op, A[i], B[i])]
    ELSE [i \in DOMAIN A |-> [j \in DOMAIN A[i] |-> Apply2(op, A[i][j], B[i][j])]]

Apply1(op, a) ==
    CASE op = "ceil" -> FCeil(a)
      [] op = "round" -> FRound(a)
      [] op = "half" -> FMul(Frac(1, 2), a)
      [] op = "minus1" -> FSub(a, FInt(1))
      [] op = "plus1" -> FAdd(a, FInt(1))

EW1(op, A, depth) ==
    IF depth = 1 THEN [i \in DOMAIN A |-> Apply1(op, A[i])]
    ELSE [i \in DOMAIN A |-> [j \in DOMAIN A[i] |-> Apply1(op, A[i][j])]]

\* np.stack([A, B], axis=-1)
StackLast(A, B, depth) ==
    IF depth = 1 THEN [i \in DOMAIN A |-> <<A[i], B[i]>>]
    ELSE [i \in DOMAIN A |-> [j \in DOMAIN A[i] |-> <<A[i][j], B[i][j]>>]]

(***************************************************************************)
(* Segment utilities                                                       *)
(***************************************************************************)
\* the test of line 757 as written: `ValueError(...)` builds the exception
\* and drops it, there is no `raise`
SegmentFormatRankCheck(X) == Return(None)

segment_format(X, mthd) ==
    LET chk == SegmentFormatRankCheck(X)
        depth == Ndim(X) - 1
        x0 == Col(X, 0)
        x1 == Col(X, 1)
    IN  IF chk.kind = "raise" THEN chk
        ELSE IF mthd \notin {"c2b", "b2c", "d2b"} THEN Return(None)
        \* X[:, 0] of an array of fewer than two axes, or X[:, 1] of a
        \* second axis shorter than 2
        ELSE IF Ndim(X) < 2 THEN Raise("IndexError", "too many indices")
        ELSE IF X.shape[2] < 2 THEN Raise("IndexError", "too many indices")
        ELSE IF mthd = "c2b" THEN
            LET Xinit == EW1("ceil", EW2("sub", x0, EW1("half", x1, depth), depth), depth)
                Xend == EW1("minus1", EW2("add", Xinit, x1, depth), depth)
            IN  Return(Arr(StackedShape(X), StackLast(Xinit, Xend, depth)))
        ELSE IF mthd = "b2c" THEN
            LET Xc == EW1("round", EW1("half", EW2("add", x0, x1, depth), depth), depth)
                d == EW1("plus1", EW2("sub", x1, x0, depth), depth)
            IN  Return(Arr(StackedShape(X), StackLast(Xc, d, depth)))
        ELSE
            LET Xinit == x0
                Xend == EW1("minus1", EW2("add", x0, x1, depth), depth)
            IN  Return(Arr(StackedShape(X), StackLast(Xinit, Xend, depth)))

\* the overlap counted as end - start, without the frame at the end
IouIntersectionOpenEnd(t, s) ==
    LET tt1 == FMax(t[1], s[1])
        tt2 == FMin(t[2], s[2])
    IN  FClip0(FSub(tt2, tt1))

\* line 846-850: the clipped overlap of target segment t and test segment s
IouIntersection(t, s) ==
    LET tt1 == FMax(t[1], s[1])
        tt2 == FMin(t[2], s[2])
    IN  FClip0(FAdd(FSub(tt2, tt1), FInt(1)))

\* the size of the test segment alone
IouUnionOfTest(t, s) == FAdd(FSub(s[2], s[1]), FInt(1))

\* line 851-853
IouUnion(t, s) ==
    FSub(FAdd(FAdd(FSub(s[2], s[1]), FInt(1)),
              FAdd(FSub(t[2], t[1]), FInt(1))),
         IouIntersection(t, s))

\* line 856: one entry of the row iou[i, :]
IouEntry(t, s) == FDiv(IouIntersection(t, s), IouUnion(t, s))

segment_iou(target_segments, test_segments) ==
    IF Ndim(target_segments) # 2 \/ Ndim(test_segments) # 2
    THEN Raise("ValueError", "Dimension of arguments is incorrect")
    ELSE LET m == target_segments.shape[1]
             n == test_segments.shape[1]
         IN  IF (m > 0 /\ target_segments.shape[2] < 2)
                \/ (m > 0 /\ test_segments.shape[2] < 2)
             THEN Raise("IndexError", "too many indices")
             ELSE Return(Arr(<<m, n>>,
                     [i \in 1..m |-> [j \in 1..n |->
                         IouEntry(target_segments.v[i], test_segments.v[j])]]))

\* line 880-882: Y is X itself unless copy is set
ScalingAliases(copy) == ~copy


\* segment_unit_scaling returns Y and leaves the caller's array as `after`
segment_unit_scaling(X, T, init, copy) ==
    IF Ndim(X) # 2
    THEN [out |-> Raise("ValueError", "Incorrect number of dimension on X"),
          after |-> X]
    ELSE IF init.some /\ Len(init.v) # X.shape[1]
    THEN [out |-> Raise("ValueError", "Incompatible reference, init"),
          after |-> X]
    ELSE IF X.shape[2] < 1 THEN [out |-> Raise("IndexError", "too many indices"), after |-> X]
    ELSE LET n == X.shape[1]
             y0 == [i \in 1..n |-> IF init.some THEN FSub(X.v[i][1], init.v[i])
                                   ELSE X.v[i][1]]
             \* Y[:, 0] /= T - 1
             Y0 == Arr(X.shape,
                       [i \in 1..n |-> [X.v[i] EXCEPT
                           ![1] = FDiv(y0[i], FInt(T - 1))]])
             \* Y[:, 1] /= T
             Y == Arr(X.shape,
                      [i \in 1..n |-> [Y0.v[i] EXCEPT
                          ![2] = FDiv(Y0.v[i][2], FInt(T))]])
         IN  IF X.shape[2] < 2
             THEN [out |-> Raise("IndexError", "too many indices"),
                   after |-> IF ScalingAliases(copy) THEN Y0 ELSE X]
             ELSE [out |-> Return(Y),
                   after |-> IF ScalingAliases(copy) THEN Y ELSE X]

(***************************************************************************)
(* Python strings, as tuples of one-character strings                      *)
(***************************************************************************)
\* str.lower of one character: the 26 capitals of ASCII
LowerChar(c) ==
    CASE c = "A" -> "a" [] c = "B" -> "b" [] c = "C" -> "c" [] c = "D" -> "d"
      [] c = "E" -> "e" [] c = "F" -> "f" [] c = "G" -> "g" [] c = "H" -> "h"
      [] c = "I" -> "i" [] c = "J" -> "j" [] c = "K" -> "k" [] c = "L" -> "l"
      [] c = "M" -> "m" [] c = "N" -> "n" [] c = "O" -> "o" [] c = "P" -> "p"
      [] c = "Q" -> "q" [] c = "R" -> "r" [] c = "S" -> "s" [] c = "T" -> "t"
      [] c = "U" -> "u" [] c = "V" -> "v" [] c = "W" -> "w" [] c = "X" -> "x"
      [] c = "Y" -> "y" [] c = "Z" -> "z"
      [] OTHER -> c

\* str.lower
Lower(s) == [i \in DOMAIN s |-> LowerChar(s[i])]

\* sub in s
Contains(s, sub) ==
    \E i \in 1..(Len(s) - Len(sub) + 1) : SubSeq(s, i, i + Len(sub) - 1) = sub

\* str.split(c) for a one-character separator c: every piece, empty ones too
RECURSIVE Split(_, _)
Split(s, c) ==
    IF \A i \in DOMAIN s : s[i] # c THEN <<s>>
    ELSE LET p == CHOOSE i \in DOMAIN s : s[i] = c /\ \A j \in 1..(i - 1) : s[j] # c
         IN  <<SubSeq(s, 1, p - 1)>> \o Split(SubSeq(s, p + 1, Len(s)), c)

Digits == {"0", "1", "2", "3", "4", "5", "6", "7", "8", "9"}

DigitVal(c) ==
    CASE c = "0" -> 0 [] c = "1" -> 1 [] c = "2" -> 2 [] c = "3" -> 3
      [] c = "4" -> 4 [] c = "5" -> 5 [] c = "6" -> 6 [] c = "7" -> 7
      [] c = "8" -> 8 [] c = "9" -> 9

RECURSIVE DigitsVal(_)
DigitsVal(s) ==
    IF s = <<>> THEN 0
    ELSE 10 * DigitsVal(SubSeq(s, 1, Len(s) - 1)) + DigitVal(s[Len(s)])

\* the six characters int() takes for blanks: space, tab, newline, carriage
\* return, form feed and the vertical tab (the raw character, last in the set)
Blanks == {" ", "\t", "\n", "\r", "\f", ""}

\* s without its leading blanks
RECURSIVE SkipBlanks(_)
SkipBlanks(s) ==
    IF s # <<>> /\ s[1] \in Blanks THEN SkipBlanks(Tail(s)) ELSE s

\* s without its trailing blanks
RECURSIVE DropTrailingBlanks(_)
DropTrailingBlanks(s) ==
    IF s # <<>> /\ s[Len(s)] \in Blanks
    THEN DropTrailingBlanks(SubSeq(s, 1, Len(s) - 1)) ELSE s

\* int(s) of Python 2.7: blanks, an optional sign, blanks, at least one
\* digit, blanks; anything else is a ValueError
ParseInt(s) ==
    LET lead == SkipBlanks(s)
        signed == lead # <<>> /\ lead[1] \in {"-", "+"}
        body == DropTrailingBlanks(SkipBlanks(IF signed THEN Tail(lead) ELSE lead))
    IN  IF body = <<>> \/ \E i \in DOMAIN body : body[i] \notin Digits
        THEN [ok |-> FALSE, val |-> 0]
        ELSE [ok |-> TRUE,
              val |-> IF signed /\ lead[1] = "-" THEN -DigitsVal(body)
                      ELSE DigitsVal(body)]

StrMean == <<"m", "e", "a", "n">>

StrMax == <<"m", "a", "x">>

StrPyr == <<"p", "y", "r">>

(***************************************************************************)
(* Pooling helpers                                                         *)
(***************************************************************************)
RECURSIVE Pow2(_)
Pow2(i) == IF i <= 0 THEN 1 ELSE 2 * Pow2(i - 1)

\* the edges of n + 1 equal steps, of which only the first n + 1 are kept
EdgesOverOneMore(n, m) == [k \in 1..(n + 1) |-> FRound(Frac((k - 1) * m, n + 1)).n]

(***************************************************************************)
(* IEEE doubles of the edge computation.  A non-negative double below      *)
(* 2^15 is held exactly as the integer value * 2^ScaleBits, written in     *)
(* NumLimbs limbs of LimbBits bits, lowest limb first.  This is exact for  *)
(* 1.0 / n, its running sums and their products with m for 0 < n < 2^15    *)
(* and 0 <= m < 2^15.                                                      *)
(***************************************************************************)
LimbBits == 15

LimbBase == 32768

NumLimbs == 6

ScaleBits == 75

\* the 53 significant bits of a double
MantissaBits == 53

BigZero == [l \in 1..NumLimbs |-> 0]

BigOne == [l \in 1..NumLimbs |-> IF l = 1 THEN 1 ELSE 0]

\* 2^e
BigPow2(e) ==
    [l \in 1..NumLimbs |-> IF l = (e \div LimbBits) + 1 THEN Pow2(e % LimbBits) ELSE 0]

RECURSIVE BigAddFrom(_, _, _, _)
BigAddFrom(X, Y, l, carry) ==
    IF l > NumLimbs THEN <<>>
    ELSE LET t == X[l] + Y[l] + carry
         IN  <<t % LimbBase>> \o BigAddFrom(X, Y, l + 1, t \div LimbBase)

\* X + Y
BigAdd(X, Y) == BigAddFrom(X, Y, 1, 0)

RECURSIVE BigMulFrom(_, _, _, _)
BigMulFrom(X, c, l, carry) ==
    IF l > NumLimbs THEN <<>>
    ELSE LET t == X[l] * c + carry
         IN  <<t % LimbBase>> \o BigMulFrom(X, c, l + 1, t \div LimbBase)

\* X * c for 0 <= c < LimbBase
BigMulSmall(X, c) == BigMulFrom(X, c, 1, 0)

\* the long division of limbs l..1 of X by c, r being the remainder so far
RECURSIVE BigDivFrom(_, _, _, _)
BigDivFrom(X, c, l, r) ==
    IF l = 0 THEN [q |-> <<>>, r |-> r]
    ELSE LET t == r * LimbBase + X[l]
             rest == BigDivFrom(X, c, l - 1, t % c)
         IN  [q |-> Append(rest.q, t \div c), r |-> rest.r]

\* quotient and remainder of X by c for 0 < c <= LimbBase
BigDivSmall(X, c) == BigDivFrom(X, c, NumLimbs, 0)

\* floor(X / 2^s), and whether a set bit was shifted out
BigShr(X, s) ==
    LET a == s \div LimbBits
        moved == [l \in 1..NumLimbs |-> IF l + a <= NumLimbs THEN X[l + a] ELSE 0]
        d == BigDivSmall(moved, Pow2(s % LimbBits))
    IN  [q |-> d.q,
         sticky |-> d.r # 0 \/ \E l \in 1..NumLimbs : l <= a /\ X[l] # 0]

\* X * 2^s
BigShl(X, s) ==
    LET a == s \div LimbBits
        moved == [l \in 1..NumLimbs |-> IF l - a >= 1 THEN X[l - a] ELSE 0]
    IN  BigMulSmall(moved, Pow2(s % LimbBits))

RECURSIVE BitLen(_)
BitLen(v) == IF v = 0 THEN 0 ELSE 1 + BitLen(v \div 2)

\* the number of bits of X
BigBitLen(X) ==
    IF X = BigZero THEN 0
    ELSE LET h == CHOOSE l \in 1..NumLimbs :
                      X[l] # 0 /\ \A u \in (l + 1)..NumLimbs : X[u] = 0
         IN  LimbBits * (h - 1) + BitLen(X[h])

\* the double nearest to X, ties to the even mantissa; `inexact` tells that
\* X is the floor of a value that has more bits below
RoundToDouble(X, inexact) ==
    LET len == BigBitLen(X)
    IN  IF len <= MantissaBits THEN X
        ELSE LET drop == len - MantissaBits
                 h == BigShr(X, drop - 1)
                 q == BigShr(h.q, 1).q
                 up == h.q[1] % 2 = 1 /\ (h.sticky \/ inexact \/ q[1] % 2 = 1)
             IN  BigShl(IF up THEN BigAdd(q, BigOne) ELSE q, drop)

\* the double 1.0 / n
DoubleInverse(n) ==
    LET d == BigDivSmall(BigPow2(ScaleBits), n)
    IN  RoundToDouble(d.q, d.r # 0)

\* np.cumsum([0, 1/n, ..., 1/n]): each sum rounded to a double
RECURSIVE CumSum(_, _)
CumSum(u, n) ==
    IF n = 0 THEN <<BigZero>>
    ELSE LET prev == CumSum(u, n - 1)
         IN  Append(prev, RoundToDouble(BigAdd(prev[n], u), FALSE))

\* np.round(...).astype(int) of a double: the nearest integer, ties to even
RoundDoubleToInt(X) ==
    LET whole == X[NumLimbs]
        top == X[NumLimbs - 1]
        half == LimbBase \div 2
        below == \E l \in 1..(NumLimbs - 2) : X[l] # 0
    IN  IF top > half \/ (top = half /\ below) THEN whole + 1
        ELSE IF top = half /\ whole % 2 = 1 THEN whole + 1
        ELSE whole

\* lines 364-366 (and 411-413):
\* edges = np.round(np.cumsum([0, 1/n, ..., 1/n]) * m).astype(int), as the
\* tuple edges[1..n+1] (edges[k + 1] is Python's edges[k]); n = 0 divides
\* by zero, which numpy answers with inf, and edges[0] = 0 leaves [0]; for
\* n < 0 there are no edges: line 411 or 412 has raised
Edges(n, m) ==
    IF n < 0 THEN <<>>
    ELSE IF n = 0 THEN <<0>>
    ELSE LET cs == CumSum(DoubleInverse(n), n)
         IN  [k \in 1..(n + 1) |->
                 RoundDoubleToInt(RoundToDouble(BigMulSmall(cs[k], m), FALSE))]

RECURSIVE FSum(_)
FSum(s) == IF s = <<>> THEN FInt(0) ELSE FAdd(s[1], FSum(Tail(s)))

RECURSIVE FMaxOf(_)
FMaxOf(s) == IF Len(s) = 1 THEN s[1] ELSE FMax(s[1], FMaxOf(Tail(s)))

\* the slice without its first row
RowsAfterFirst(x, a, b) == SubSeq(x.v, a + 2, b)

\* x[a:b, :] for 0 <= a <= b <= m
Rows(x, a, b) == SubSeq(x.v, a + 1, b)

\* rows.mean(axis=0): the mean of no rows is NaN in every column (numpy
\* warns "Mean of empty slice" and goes on)
MeanAxis0(rows, d) ==
    [c \in 1..d |-> IF rows = <<>> THEN NaN
                    ELSE FDiv(FSum([r \in DOMAIN rows |-> rows[r][c]]),
                              FInt(Len(rows)))]

\* rows.max(axis=0), of at least one row
MaxAxis0(rows, d) == [c \in 1..d |-> FMaxOf([r \in DOMAIN rows |-> rows[r][c]])]

\* the pooled vector of one region: lines 368-373 (and 415-420)
PoolRegion(x, a, b, pool_type) ==
    LET d == x.shape[2]
        rows == Rows(x, a, b)
    IN  IF pool_type = StrMean THEN Return(MeanAxis0(rows, d))
        ELSE IF pool_type = StrMax THEN
            IF rows = <<>>
            THEN Raise("ValueError", "zero-size array to reduction operation")
            ELSE Return(MaxAxis0(rows, d))
        ELSE Raise("ValueError", "Unknown pooling type")

\* the largest u >= t with u * u dividing n, or 1 if there is none
RECURSIVE SquarePartFrom(_, _)
SquarePartFrom(n, t) ==
    IF t * t > n THEN 1
    ELSE LET r == SquarePartFrom(n, t + 1)
         IN  IF r > 1 THEN r ELSE IF n % (t * t) = 0 THEN t ELSE 1

\* the largest t with t * t dividing n, for n >= 1
SquarePart(n) == SquarePartFrom(n, 1)

\* v / sqrt(s) for a rational v and a rational s = p/q > 0: with
\* p = tp^2 * kp and q = tq^2 * kq it is v * tq / (tp * kp) * sqrt(kp * kq)
DivSqrt(v, s) ==
    IF v.n = 0 THEN v
    ELSE LET tp == SquarePart(s.n)
             tq == SquarePart(s.d)
             kp == s.n \div (tp * tp)
             kq == s.d \div (tq * tq)
             q == Frac(v.n * tq, v.d * tp * kp)
         IN  [n |-> q.n, d |-> q.d, k |-> kp * kq]

\* lines 375-379: arr[idx] /= feat_norm, a zero norm counting as 1
Normalize(vec) ==
    LET ss == FSum([c \in DOMAIN vec |-> FMul(vec[c], vec[c])])
    IN  IF IsNaN(ss) THEN [c \in DOMAIN vec |-> NaN]
        ELSE IF IsInf(ss)
             THEN [c \in DOMAIN vec |-> IF IsInf(vec[c]) THEN NaN ELSE FInt(0)]
        ELSE IF ss.n = 0 THEN vec
        ELSE [c \in DOMAIN vec |-> DivSqrt(vec[c], ss)]

\* a float of the model divided by the integer c >= 1
DivInt(a, c) ==
    IF ~IsFinite(a) THEN a
    ELSE LET q == Frac(a.n, a.d * c) IN [n |-> q.n, d |-> q.d, k |-> a.k]

\* one pooled (and normalised) region
Region(x, a, b, pool_type, norm) ==
    LET r == PoolRegion(x, a, b, pool_type)
    IN  IF r.kind = "raise" THEN r
        ELSE IF norm THEN Return(Normalize(r.value)) ELSE r

RECURSIVE Flatten(_)
Flatten(ss) == IF ss = <<>> THEN <<>> ELSE ss[1] \o Flatten(Tail(ss))

\* the regions of the pyramid in the order of the loops of lines 362-381:
\* region idx (from 1) is <<level i, position j>>
PyramidRegions(levels) ==
    [idx \in 1..(Pow2(levels + 1) - 1) |->
        LET i == CHOOSE l \in 0..levels : Pow2(l) <= idx /\ idx < Pow2(l + 1)
        IN  <<i, idx - Pow2(i)>>]

\* the loops of lines 361-381 from level i, position j and index idx on:
\* the <<idx, i, j>> of every iteration still to run, in the order they run
RECURSIVE PyramidLoop(_, _, _, _)
PyramidLoop(levels, i, j, idx) ==
    IF i > levels THEN <<>>
    ELSE IF j >= Pow2(i) THEN PyramidLoop(levels, i + 1, 0, idx)
    ELSE <<[idx |-> idx, i |-> i, j |-> j]>> \o PyramidLoop(levels, i, j + 1, idx + 1)

\* np.hstack of the region vectors, or the exception of the first region
\* (in loop order) that raises
Gather(regs, scale, unit) ==
    IF regs = <<>> THEN Raise("ValueError", "need at least one array to concatenate")
    ELSE IF \E r \in DOMAIN regs : regs[r].kind = "raise"
    THEN regs[CHOOSE r \in DOMAIN regs :
                 regs[r].kind = "raise"
                 /\ \A q \in 1..(r - 1) : regs[q].kind = "return"]
    ELSE LET feat == Flatten([r \in DOMAIN regs |-> regs[r].value])
         IN  Return(Arr(<<Len(feat)>>,
                        IF unit THEN [c \in DOMAIN feat |-> DivInt(feat[c], scale)]
                        ELSE feat))

feature_1dpyramid(x, levels, pool_type, norm, unit) ==
    IF Ndim(x) # 2 THEN Raise("ValueError", "unpack")
    \* 2 ** (levels + 1) is a float below 1 and range() refuses it
    ELSE IF levels < -1 THEN Raise("TypeError", "range() integer end argument expected")
    ELSE LET m == x.shape[1]
             pt == Lower(pool_type)
             regions == PyramidRegions(levels)
             \* the edges of level i, computed once per level (lines 364-366)
             edges == [i \in 0..levels |-> Edges(Pow2(i), m)]
             regs == [idx \in DOMAIN regions |->
                        LET i == regions[idx][1]
                            j == regions[idx][2]
                        IN  Region(x, edges[i][j + 1], edges[i][j + 2], pt, norm)]
         IN  Gather(regs, Pow2(levels + 1) - 1, unit)

feature_1dconcat(x, n, pool_type, norm, unit) ==
    IF Ndim(x) # 2 THEN Raise("ValueError", "unpack")
    \* line 411: np.ones(n + 1) of a negative length
    ELSE IF n < -1 THEN Raise("ValueError", "negative dimensions are not allowed")
    \* line 412: edges[0] = 0 on the empty np.ones(0)
    ELSE IF n = -1 THEN Raise("IndexError", "index 0 is out of bounds")
    ELSE LET m == x.shape[1]
             pt == Lower(pool_type)
             edges == Edges(n, m)
             regs == [j \in 1..n |-> Region(x, edges[j], edges[j + 1], pt, norm)]
         IN  Gather(regs, n, unit)

(***************************************************************************)
(* C3D feature dumps                                                       *)
(*                                                                         *)
(* A file is [exists, words]: the 32-bit words it holds, the first five    *)
(* read as integers (the shape header) and the rest as floats.             *)
(***************************************************************************)
File(words) == [exists |-> TRUE, words |-> words]

NoFile == [exists |-> FALSE, words |-> <<>>]

RECURSIVE Product(_)
Product(s) == IF s = <<>> THEN 1 ELSE s[1] * Product(Tail(s))

\* one float fewer than the header declares
FloatsWantedOneLess(m) == IF m > 1 THEN m - 1 ELSE 0

\* how many floats d_parr.fromfile(f, m) asks the stream for: array.fromfile
\* reads only when the count is positive
FloatsWanted(m) == IF m > 0 THEN m ELSE 0

c3d_read_feature(file) ==
    IF ~file.exists THEN Raise("IOError", "No such file")
    \* s_parr.fromfile(f, 5)
    ELSE IF Len(file.words) < 5 THEN Raise("EOFError", "not enough items in file")
    ELSE LET s == SubSeq(file.words, 1, 5)
             m == Product(s)
             want == FloatsWanted(m)
         IN  \* d_parr.fromfile(f, m)
             IF Len(file.words) - 5 < want
             THEN Raise("EOFError", "not enough items in file")
             ELSE Return([s |-> s,
                          data |-> [j \in 1..want |-> FInt(file.words[5 + j])]])

(***************************************************************************)
(* The disk of c3d_stack_feature: the directory dirname holds the dump     *)
(* <key><layer> of every key in `present`; every dump is well formed and   *)
(* holds FeatDim values that depend on its key.                            *)
(***************************************************************************)
Keys == {1, 2, 10}

Directories == {{}, {1, 10}, Keys}

DumpWords(key) == <<1, 1, 1, 1, FeatDim>> \o [j \in 1..FeatDim |-> key + j - 1]

Disk(dir, key) == IF key \in dir THEN File(DumpWords(key)) ELSE NoFile

\* what an np.empty row may hold before it is written
GarbageRows == {[j \in 1..FeatDim |-> FInt(0)], [j \in 1..FeatDim |-> FInt(7)]}

RECURSIVE SetToSeq(_)
SetToSeq(S) ==
    IF S = {} THEN <<>>
    ELSE LET x == CHOOSE y \in S : TRUE IN <<x>> \o SetToSeq(S \ {x})

\* lines 181-186: the paths to read, each named by its key
ResolveFiles(dir, files) == IF files.some THEN files.v ELSE SetToSeq(dir)

\* natsort's order of two paths dirname/<key><layer>: by the number <key>
NatLess(a, b) == a < b

RECURSIVE NatInsert(_, _)
NatInsert(x, s) ==
    IF s = <<>> THEN <<x>>
    ELSE IF NatLess(x, s[1]) THEN <<x>> \o s
    ELSE <<s[1]>> \o NatInsert(x, Tail(s))

\* natsort.natsorted
RECURSIVE natsorted(_)
natsorted(s) == IF s = <<>> THEN <<>> ELSE NatInsert(s[1], natsorted(Tail(s)))

\* line 195-197: the row that iteration i (from 0) of
\* `for i, v in enumerate(sorted_files[1::])` writes, as a Python index
FillRow(i) == i

\* the pooling of lines 200-210 without the np.expand_dims of line 211
StackPoolingNoExpand(arr, pool_type) ==
    IF ~pool_type.some THEN Return(arr)
    ELSE LET pt == Lower(pool_type.v)
             d == arr.shape[2]
             expand(r) ==
                 r
         IN  IF pt = StrMean THEN expand(Return(Arr(<<d>>, MeanAxis0(arr.v, d))))
             ELSE IF pt = StrMax THEN expand(Return(Arr(<<d>>, MaxAxis0(arr.v, d))))
             ELSE IF Contains(pt, StrPyr) THEN
                 LET parts == Split(pt, ":")
                 IN  IF Len(parts) < 2
                     THEN Raise("IndexError", "list index out of range")
                     ELSE LET sub == Split(parts[2], ",")
                          IN  IF Len(sub) # 2
                              THEN Raise("ValueError", "values to unpack")
                              ELSE LET level == ParseInt(sub[1])
                                   IN  IF ~level.ok
                                       THEN Raise("ValueError", "invalid literal for int()")
                                       ELSE expand(feature_1dpyramid(
                                                arr, level.val, sub[2], TRUE, FALSE))
             ELSE Raise("ValueError", "Unknown pool_type")

\* arr.mean(axis=0) / arr.max(axis=0) / feature_1dpyramid of lines 200-211,
\* then np.expand_dims(arr, axis=0)
StackPooling(arr, pool_type) ==
    IF ~pool_type.some THEN Return(arr)
    ELSE LET pt == Lower(pool_type.v)
             d == arr.shape[2]
             expand(r) ==
                 IF r.kind = "raise" THEN r
                 ELSE Return(Arr(<<1>> \o r.value.shape, <<r.value.v>>))
         IN  IF pt = StrMean THEN expand(Return(Arr(<<d>>, MeanAxis0(arr.v, d))))
             ELSE IF pt = StrMax THEN expand(Return(Arr(<<d>>, MaxAxis0(arr.v, d))))
             ELSE IF Contains(pt, StrPyr) THEN
                 LET parts == Split(pt, ":")
                 IN  IF Len(parts) < 2
                     THEN Raise("IndexError", "list index out of range")
                     ELSE LET sub == Split(parts[2], ",")
                          IN  IF Len(sub) # 2
                              THEN Raise("ValueError", "values to unpack")
                              ELSE LET level == ParseInt(sub[1])
                                   IN  IF ~level.ok
                                       THEN Raise("ValueError", "invalid literal for int()")
                                       ELSE expand(feature_1dpyramid(
                                                arr, level.val, sub[2], TRUE, FALSE))
             ELSE Raise("ValueError", "Unknown pool_type")

(***************************************************************************)
(* c3d_input_file_generator                                                *)
(*                                                                         *)
(* The CSV file is [kind, rows]: kind "unreadable" cannot be parsed,       *)
(* "incomplete" lacks a required column, "nolabel" has no label column and *)
(* "full" has all five; rows are [video, i_frame, duration, label].        *)
(***************************************************************************)
\* astype('int') of a finite float: truncation toward zero
AsInt(a) == IF a.n >= 0 THEN a.n \div a.d ELSE -((-a.n) \div a.d)

\* line 67, one entry: ((duration - t_size) / step_size + 1).astype('int');
\* the `/` of two integer columns is a true division or, under Python 2
\* with an older pandas, a floor division
NClips(duration, t_size, step_size, truediv) ==
    IF truediv
    THEN AsInt(FAdd(FDiv(FInt(duration - t_size), FInt(step_size)), FInt(1)))
    ELSE FloorDiv(duration - t_size, step_size) + 1

\* np.arange(a, b, s) of integers, for a step s >= 1
Arange(a, b, s) ==
    IF b <= a THEN <<>>
    ELSE [k \in 1..(((b - a - 1) \div s) + 1) |-> a + (k - 1) * s]

\* Python's seq[:n]
SliceTo(seq, n) ==
    IF n >= 0 THEN SubSeq(seq, 1, IF n < Len(seq) THEN n ELSE Len(seq))
    ELSE SubSeq(seq, 1, Len(seq) + n)

\* the clips of a kept segment without the slice [:n_clips]
SegmentClipsUnsliced(row, t_size, step_size, truediv) ==
    Arange(row.i_frame, row.i_frame + row.duration, step_size)

\* lines 69-71: the clip start frames of one kept segment
SegmentClips(row, t_size, step_size, truediv) ==
    SliceTo(Arange(row.i_frame, row.i_frame + row.duration, step_size),
            NClips(row.duration, t_size, step_size, truediv))

\* drop_duplicates(keep='first')
RECURSIVE DropDuplicates(_)
DropDuplicates(rows) ==
    IF rows = <<>> THEN <<>>
    ELSE LET front == DropDuplicates(SubSeq(rows, 1, Len(rows) - 1))
             last == rows[Len(rows)]
         IN  IF \E k \in DOMAIN front : front[k] = last THEN front
             ELSE Append(front, last)

\* the call with one output file and no output folder: it returns the
\* summary; `file` is what it wrote to output_file[0] and `clips` the start
\* frames it took from each segment (none for a segment it skipped)
c3d_input_file_generator(csv, t_size, step_size, truediv) ==
    IF csv.kind = "unreadable" THEN Raise("ValueError", "Unable to open file")
    ELSE IF csv.kind = "incomplete"
    THEN Raise("ValueError", "Not enough information or incorrect format")
    ELSE LET df == csv.rows
             n_segments == Len(df)
             label == [k \in DOMAIN df |->
                         IF csv.kind = "nolabel" THEN 0 ELSE df[k].label]
             idx_bool_keep == [k \in DOMAIN df |-> df[k].duration >= t_size]
             clips == [k \in DOMAIN df |->
                         IF idx_bool_keep[k]
                         THEN SegmentClips(df[k], t_size, step_size, truediv) ELSE <<>>]
             kept == {k \in DOMAIN df : idx_bool_keep[k]}
             init_end_frame == Flatten(clips)
             idx_keep_expanded ==
                 Flatten([k \in DOMAIN df |->
                     IF idx_bool_keep[k]
                     THEN [c \in 1..NClips(df[k].duration, t_size, step_size, truediv) |-> k]
                     ELSE <<>>])
             df_c3d == [c \in DOMAIN idx_keep_expanded |->
                          <<df[idx_keep_expanded[c]].video, init_end_frame[c],
                            label[idx_keep_expanded[c]]>>]
         IN  IF kept = {}
             THEN Raise("ValueError", "need at least one array to concatenate")
             ELSE [kind |-> "return", err |-> "", msg |-> "",
                   value |-> [success |-> TRUE, output |-> None,
                              skipped |-> Frac(n_segments - Cardinality(kept),
                                               n_segments),
                              ratio |-> Frac(Len(idx_keep_expanded), n_segments)],
                   file |-> DropDuplicates(df_c3d),
                   clips |-> clips]

(***************************************************************************)
(* c3d_batch_feature_stacking                                              *)
(*                                                                         *)
(* A table df is a sequence of rows [video, f_init, duration, label].  The *)
(* folder of every video holds the dump of every frame in BatchFrames.     *)
(***************************************************************************)
\* Python 2's range(a, b, s) for a step s >= 1
PyRange(a, b, s) ==
    IF b <= a THEN <<>>
    ELSE [k \in 1..(((b - a - 1) \div s) + 1) |-> a + (k - 1) * s]

\* line 272: frames_of_interest = range(f_init, f_init + duration - T + 1, s)
FramesOfInterest(f_init, duration, T, s) ==
    PyRange(f_init, f_init + duration - T + 1, s)

BatchFrames == 0..(MaxDur + 1)

\* lines 195-197 run from iteration i to the end of sorted_files[1::]
RECURSIVE StackFill(_, _, _, _)
StackFill(a, dir, sorted, i) ==
    IF i >= Len(sorted) - 1 THEN Return(a)
    ELSE LET r == c3d_read_feature(Disk(dir, sorted[i + 2]))
         IN  IF r.kind = "raise" THEN r
             ELSE StackFill([a EXCEPT !.v[FillRow(i) + 1] = r.value.data],
                            dir, sorted, i + 1)

\* c3d_stack_feature(dirname, files) as one call on an existing folder `dir`;
\* every row of its np.empty holds g before it is written
StackFeatureCall(dir, files, pool, g) ==
    LET sorted == natsorted(ResolveFiles(dir, files))
    IN  IF sorted = <<>> THEN Raise("IndexError", "list index out of range")
        ELSE LET r == c3d_read_feature(Disk(dir, sorted[1]))
             IN  IF r.kind = "raise" THEN r
                 ELSE LET a0 == Arr(<<Len(sorted), Product(r.value.s)>>,
                                    [[k \in 1..Len(sorted) |-> g]
                                        EXCEPT ![1] = r.value.data])
                          filled == StackFill(a0, dir, sorted, 0)
                      IN  IF filled.kind = "raise" THEN filled
                          ELSE StackPooling(filled.value, pool)

\* numpy's broadcast of a [k, d] value into a [T, F] slot, or the error
BroadcastInto(tmp, T, F) ==
    IF Ndim(tmp) # 2
       \/ ~(tmp.shape[1] \in {1, T})
       \/ ~(tmp.shape[2] \in {1, F})
    THEN Raise("ValueError", "could not broadcast input array")
    ELSE Return([r \in 1..T |-> [c \in 1..F |->
             tmp.v[IF tmp.shape[1] = 1 THEN 1 ELSE r][IF tmp.shape[2] = 1 THEN 1 ELSE c]]])

(***************************************************************************)
(* State                                                                   *)
(*                                                                         *)
(* One behaviour is one call of one function of the module.  pc is the     *)
(* position of that call; `call` records a call of a function that runs in *)
(* one step; the other variables are the arguments and locals of a call of *)
(* c3d_stack_feature, which is followed statement by statement.            *)
(***************************************************************************)
VARIABLES pc, call, dir_exists, present, files, pool_type, sorted_files,
          arr, i, reads, allocated, ret

vars == <<pc, call, dir_exists, present, files, pool_type, sorted_files,
          arr, i, reads, allocated, ret>>

stackVars == <<dir_exists, present, files, pool_type, sorted_files,
               arr, i, reads, allocated, ret>>

NoCall == [op |-> "none"]

NoOutcome == [kind |-> "none", err |-> "", msg |-> "", value |-> None]

Init ==
    /\ pc = "idle"
    /\ call = NoCall
    /\ dir_exists = TRUE
    /\ present = {}
    /\ files = Absent
    /\ pool_type = Absent
    /\ sorted_files = <<>>
    /\ arr = Arr(<<0, 0>>, <<>>)
    /\ i = 0
    /\ reads = 0
    /\ allocated = FALSE
    /\ ret = NoOutcome

(***************************************************************************)
(* Inputs                                                                  *)
(***************************************************************************)
\* the tuples of 1..n elements of S
Batches(S, n) == UNION {[1..k -> S] : k \in 1..n}

\* the [n, 2] array of the rows
Batch2(rows) == Arr(<<Len(rows), 2>>, rows)

\* (center, duration) rows: integer center, integer positive duration
FormatRows == {<<FInt(c), FInt(dur)>> : c \in (-1)..MaxCoord, dur \in 1..(MaxCoord + 1)}

\* arrays whose rank is not 2: a scalar, a vector and a [1, 2, 1] array
OtherRankArrays ==
    {Arr(<<>>, FInt(3)),
     Arr(<<2>>, <<FInt(1), FInt(2)>>),
     Arr(<<1, 2, 1>>, << << <<FInt(1)>>, <<FInt(2)>> >> >>)}

FormatInputs == {Batch2(b) : b \in Batches(FormatRows, MaxSegs)} \cup OtherRankArrays

Modes == {"c2b", "b2c", "d2b", "other"}

\* [start, end] segments, those of length 0 (end = start - 1) included
Segments ==
    UNION {{<<FInt(s), FInt(e)>> : e \in (s - 1)..MaxCoord} : s \in 0..MaxCoord}

TargetInputs == {Batch2(b) : b \in Batches(Segments, MaxTargets)}
                \cup {Arr(<<2>>, <<FInt(0), FInt(1)>>)}

TestInputs == {Batch2(b) : b \in Batches(Segments, MaxSegs)}

\* (center, duration) rows of the longest duration
ScalingRows == {<<FInt(c), FInt(MaxCoord + 1)>> : c \in 0..MaxCoord}

ScalingInputs == {Batch2(b) : b \in Batches(ScalingRows, MaxSegs)}
                 \cup {Arr(<<2>>, <<FInt(1), FInt(2)>>)}

InitInputs == {Absent} \cup {Some(v) : v \in Batches({FInt(0), FInt(1)}, MaxSegs)}

\* rows of a feature matrix
PoolRows ==
    {[j \in 1..FeatDim |-> FInt(0)],
     [j \in 1..FeatDim |-> FInt(j + 2)],
     [j \in 1..FeatDim |-> FInt(IF j = 1 THEN 1 ELSE 0)]}

PoolInputs == {Arr(<<Len(rows), FeatDim>>, rows) :
                  rows \in {<<>>} \cup Batches(PoolRows, MaxRows)}

PoolNames == {StrMean, StrMax, <<"M", "a", "x">>, <<"A", "v", "g">>}

DumpInputs ==
    {NoFile} \cup {File(w) : w \in UNION {[1..k -> 0..2] : k \in 0..MaxWords}}

FilesInputs == {Absent} \cup {Some(<<>>)} \cup {Some(f) : f \in Batches(Keys, MaxFiles)}

PoolTypeInputs ==
    {Absent} \cup
    {Some(p) : p \in
        {StrMean, <<"M", "A", "X">>, <<"a", "v", "g">>, StrPyr,
         <<"p", "y", "r", ":", "0", ",", "m", "e", "a", "n">>,
         <<"p", "y", "r", ":", "1", ",", "m", "e", "a", "n">>,
         <<"p", "y", "r", ":", "1", ",", "m", "a", "x">>,
         <<"p", "y", "r", ":", "2", ",", "m", "e", "a", "n">>,
         <<"p", "y", "r", ":", "1">>,
         <<"p", "y", "r", ":", "x", ",", "m", "a", "x">>,
         <<"p", "y", "r", ":", "1", ",", "a", "v", "g">>,
         <<"p", "y", "r", ":", " ", "1", ",", "m", "a", "x">>,
         <<"x", "p", "y", "r", ":", "0", ",", "m", "a", "x">>}}

\* rows [video, f_init, duration, label] of one video
TableRows ==
    {[video |-> "v", f_init |-> f, duration |-> dur, label |-> 0] :
        f \in 0..1, dur \in 1..MaxDur}

TableInputs == Batches(TableRows, MaxBatch)

\* rows [video, i_frame, duration, label] of two videos
CsvRows ==
    {[video |-> v, i_frame |-> f, duration |-> dur, label |-> 0] :
        v \in {"a", "b"}, f \in 0..1, dur \in 1..MaxDur}

CsvInputs ==
    {[kind |-> k, rows |-> rows] :
        k \in {"unreadable", "incomplete", "nolabel", "full"},
        rows \in Batches(CsvRows, MaxBatch)}

(***************************************************************************)
(* segment_format, segment_iou, segment_unit_scaling: one step each        *)
(***************************************************************************)
CallSegmentFormat ==
    /\ pc = "idle"
    /\ \E X \in FormatInputs, mthd \in Modes :
          call' = [op |-> "segment_format", X |-> X, mthd |-> mthd,
                   out |-> segment_format(X, mthd),
                   step |-> 1, first |-> X, mthd1 |-> mthd]
    /\ pc' = "called"
    /\ UNCHANGED stackVars

\* the caller hands the array a first call returned to a second call
SegmentFormatAgain ==
    /\ pc = "called"
    /\ call.op = "segment_format"
    /\ call.step = 1
    /\ call.out.kind = "return"
    /\ call.out.value # None
    /\ \E mthd \in Modes :
          call' = [op |-> "segment_format", X |-> call.out.value, mthd |-> mthd,
                   out |-> segment_format(call.out.value, mthd),
                   step |-> 2, first |-> call.first, mthd1 |-> call.mthd]
    /\ pc' = "called"
    /\ UNCHANGED stackVars

\* X is the caller's array before the call, `after` the same array after it
CallSegmentUnitScaling ==
    /\ pc = "idle"
    /\ \E X \in ScalingInputs, T \in 1..MaxT, init \in InitInputs, copy \in BOOLEAN :
          LET r == segment_unit_scaling(X, T, init, copy)
          IN  call' = [op |-> "segment_unit_scaling", X |-> X, T |-> T,
                       init |-> init, copy |-> copy,
                       out |-> r.out, after |-> r.after]
    /\ pc' = "called"
    /\ UNCHANGED stackVars

NextSeg == CallSegmentFormat \/ SegmentFormatAgain \/ CallSegmentUnitScaling

SpecSeg == Init /\ [][NextSeg]_vars

CallSegmentIou ==
    /\ pc = "idle"
    /\ \E target \in TargetInputs, test \in TestInputs :
          call' = [op |-> "segment_iou", target |-> target, test |-> test,
                   out |-> segment_iou(target, test)]
    /\ pc' = "called"
    /\ UNCHANGED stackVars

NextIou == CallSegmentIou

SpecIou == Init /\ [][NextIou]_vars

(***************************************************************************)
(* feature_1dpyramid, feature_1dconcat: one step each                      *)
(***************************************************************************)
CallFeature1dPyramid ==
    /\ pc = "idle"
    /\ \E x \in PoolInputs, levels \in (-1)..MaxLevels, pool \in PoolNames,
          norm \in BOOLEAN, unit \in BOOLEAN :
          call' = [op |-> "feature_1dpyramid", x |-> x, levels |-> levels,
                   pool |-> pool, norm |-> norm, unit |-> unit,
                   out |-> feature_1dpyramid(x, levels, pool, norm, unit)]
    /\ pc' = "called"
    /\ UNCHANGED stackVars

CallFeature1dConcat ==
    /\ pc = "idle"
    /\ \E x \in PoolInputs, n \in (-2)..MaxChunks, pool \in PoolNames,
          norm \in BOOLEAN, unit \in BOOLEAN :
          call' = [op |-> "feature_1dconcat", x |-> x, n |-> n,
                   pool |-> pool, norm |-> norm, unit |-> unit,
                   out |-> feature_1dconcat(x, n, pool, norm, unit)]
    /\ pc' = "called"
    /\ UNCHANGED stackVars

NextPool == CallFeature1dPyramid \/ CallFeature1dConcat

SpecPool == Init /\ [][NextPool]_vars

(***************************************************************************)
(* c3d_read_feature: one step                                              *)
(***************************************************************************)
CallC3dReadFeature ==
    /\ pc = "idle"
    /\ \E file \in DumpInputs :
          call' = [op |-> "c3d_read_feature", file |-> file,
                   out |-> c3d_read_feature(file)]
    /\ pc' = "called"
    /\ UNCHANGED stackVars

NextRead == CallC3dReadFeature

SpecRead == Init /\ [][NextRead]_vars

(***************************************************************************)
(* c3d_stack_feature, statement by statement                               *)
(***************************************************************************)
\* lines 177-188: the folder test, the files to read, their natural order
StackCall ==
    /\ pc = "idle"
    /\ \E de \in BOOLEAN, dir \in Directories, f \in FilesInputs, p \in PoolTypeInputs :
          /\ de \/ dir = {}
          /\ dir_exists' = de
          /\ present' = dir
          /\ files' = f
          /\ pool_type' = p
          /\ IF ~de
             THEN /\ ret' = Raise("IOError", "Unexistent folder")
                  /\ pc' = "done"
                  /\ UNCHANGED sorted_files
             ELSE /\ sorted_files' = natsorted(ResolveFiles(dir, f))
                  /\ pc' = "first"
                  /\ UNCHANGED ret
    /\ UNCHANGED <<call, arr, i, reads, allocated>>

\* lines 190-192: read the first dump, allocate arr with np.empty (every row
\* holds whatever the memory held), write the first dump into row 0
StackReadFirst ==
    /\ pc = "first"
    /\ IF sorted_files = <<>>
       THEN /\ ret' = Raise("IndexError", "list index out of range")
            /\ pc' = "done"
            /\ UNCHANGED <<arr, reads, allocated>>
       ELSE LET r == c3d_read_feature(Disk(present, sorted_files[1]))
            IN  /\ reads' = reads + 1
                /\ IF r.kind = "raise"
                   THEN /\ ret' = r
                        /\ pc' = "done"
                        /\ UNCHANGED <<arr, allocated>>
                   ELSE /\ \E g \in [1..Len(sorted_files) -> GarbageRows] :
                              arr' = Arr(<<Len(sorted_files), Product(r.value.s)>>,
                                         [g EXCEPT ![1] = r.value.data])
                        /\ allocated' = TRUE
                        /\ pc' = "fill"
                        /\ UNCHANGED ret
    /\ UNCHANGED <<call, dir_exists, present, files, pool_type, sorted_files, i>>

\* lines 195-197: one iteration of the loop over sorted_files[1::]
StackFillStep ==
    /\ pc = "fill"
    /\ i < Len(sorted_files) - 1
    /\ LET v == sorted_files[i + 2]
           r == c3d_read_feature(Disk(present, v))
       IN  /\ reads' = reads + 1
           /\ IF r.kind = "raise"
              THEN /\ ret' = r
                   /\ pc' = "done"
                   /\ UNCHANGED <<arr, i>>
              ELSE /\ arr' = [arr EXCEPT !.v[FillRow(i) + 1] = r.value.data]
                   /\ i' = i + 1
                   /\ UNCHANGED <<ret, pc>>
    /\ UNCHANGED <<call, dir_exists, present, files, pool_type, sorted_files, allocated>>

\* lines 199-219: the loop is over; pool if asked to, and return
StackFinish ==
    /\ pc = "fill"
    /\ i = Len(sorted_files) - 1
    /\ ret' = StackPooling(arr, pool_type)
    /\ pc' = "done"
    /\ UNCHANGED <<call, dir_exists, present, files, pool_type, sorted_files,
                   arr, i, reads, allocated>>

NextStack ==
    \/ StackCall
    \/ StackReadFirst
    \/ StackFillStep
    \/ StackFinish

SpecStack == Init /\ [][NextStack]_vars

(***************************************************************************)
(* c3d_input_file_generator: one step                                      *)
(***************************************************************************)
CallC3dInputFileGenerator ==
    /\ pc = "idle"
    /\ \E csv \in CsvInputs, t_size \in 1..MaxWindow, step_size \in 1..MaxWindow,
          truediv \in BOOLEAN :
          call' = [op |-> "c3d_input_file_generator", csv |-> csv,
                   t_size |-> t_size, step_size |-> step_size, truediv |-> truediv,
                   out |-> c3d_input_file_generator(csv, t_size, step_size, truediv)]
    /\ pc' = "called"
    /\ UNCHANGED stackVars

NextGen == CallC3dInputFileGenerator

SpecGen == Init /\ [][NextGen]_vars

(***************************************************************************)
(* c3d_batch_feature_stacking with persistent = None, statement by         *)
(* statement; its arguments and locals are fields of `call`                *)
(***************************************************************************)
\* the smallest duration of the table
MinDuration(df) ==
    CHOOSE d \in {df[k].duration : k \in DOMAIN df} :
        \A k \in DOMAIN df : d <= df[k].duration

\* lines 261-266 and 292: n, T, Te and the np.empty of the output
BatchCall ==
    /\ pc = "idle"
    /\ \E df \in TableInputs, t_size \in 1..MaxWindow, t_stride \in 1..MaxWindow,
          feat_size \in {FeatDim, FeatDim + 1}, g \in {FInt(0), FInt(7)} :
          LET n == Len(df)
              T == MinDuration(df)
          IN  call' = [op |-> "c3d_batch_feature_stacking", df |-> df,
                       t_size |-> t_size, t_stride |-> t_stride,
                       feat_size |-> feat_size,
                       n |-> n, T |-> T,
                       Te |-> FloorDiv(T - t_size, t_stride) + 1,
                       arr |-> Arr(<<n, T, feat_size>>,
                                   [k \in 1..n |-> [r \in 1..T |->
                                       [c \in 1..feat_size |-> g]]]),
                       i |-> 0, tmps |-> <<>>, out |-> NoOutcome]
    /\ pc' = "batch"
    /\ UNCHANGED stackVars

\* lines 294-296: one iteration, arr[i, ...] = wrapper_c3d_stacking(...)
BatchFillStep ==
    /\ pc = "batch"
    /\ call.i < call.n
    /\ \E g \in GarbageRows :
          LET row == call.df[call.i + 1]
              frames_of_interest ==
                  FramesOfInterest(row.f_init, row.duration, call.t_size, call.t_stride)
              tmp == StackFeatureCall(BatchFrames, Some(frames_of_interest), Absent, g)
              slot == IF tmp.kind = "raise" THEN tmp
                      ELSE BroadcastInto(tmp.value, call.T, call.feat_size)
          IN  IF slot.kind = "raise"
              THEN /\ call' = [call EXCEPT !.out = slot]
                   /\ pc' = "batch_done"
              ELSE /\ call' = [call EXCEPT !.arr.v[call.i + 1] = slot.value,
                                           !.tmps = Append(call.tmps, tmp.value),
                                           !.i = call.i + 1]
                   /\ pc' = "batch"
    /\ UNCHANGED stackVars

\* lines 298-301: return arr
BatchReturn ==
    /\ pc = "batch"
    /\ call.i = call.n
    /\ call' = [call EXCEPT !.out = Return(call.arr)]
    /\ pc' = "batch_done"
    /\ UNCHANGED stackVars

NextBatch == BatchCall \/ BatchFillStep \/ BatchReturn

SpecBatch == Init /\ [][NextBatch]_vars

Next == NextSeg \/ NextIou \/ NextPool \/ NextRead \/ NextStack \/ NextGen \/ NextBatch

Spec == Init /\ [][Next]_vars

(***************************************************************************)
(* Properties of c3d_stack_feature                                         *)
(***************************************************************************)
\* the fill loop of lines 195-197 has run to its end
FillFinished == pc = "fill" /\ i = Len(sorted_files) - 1

\* the values of the dump of a key that is on the disk
DumpData(key) == [j \in 1..FeatDim |-> FInt(DumpWords(key)[5 + j])]

\* C1: without pooling, once the fill loop has finished (and in the matrix
\* then returned) row r of the [k, d] matrix holds the values of the r-th
\* file of the naturally sorted list, for every r.
C1_RowsHoldOwnDump ==
    (FillFinished \/ (pc = "done" /\ ret.kind = "return" /\ ~pool_type.some)) =>
        /\ arr.shape = <<Len(sorted_files), FeatDim>>
        /\ \A r \in 1..Len(sorted_files) : arr.v[r] = DumpData(sorted_files[r])
        /\ (pc = "done" => ret.value = arr)

\* the resolved file list is empty: keys given as an empty list, or no file
\* of the directory ends in the layer suffix
EmptyResolved ==
    \/ files.some /\ files.v = <<>>
    \/ ~files.some /\ present = {}

\* what indexing the empty sorted list raises
EmptyListError == Raise("IndexError", "list index out of range")

\* C7: the error of an empty file list is dedicated to it: the call fails, before reading or allocating, with an error that no call
\* with a non-empty file list ends with.
C7_EmptyInputErrorIsDedicated ==
    /\ (pc = "done" /\ dir_exists /\ EmptyResolved) =>
           ret.kind = "raise" /\ reads = 0 /\ ~allocated
    /\ (pc = "done" /\ ret = EmptyListError) => EmptyResolved

\* 'mean', 'max' or a well-formed 'pyr:<levels>,<mean|max>'
ValidPoolKind(p) ==
    LET pt == Lower(p)
    IN  \/ pt \in {StrMean, StrMax}
        \/ /\ Len(pt) > 4
           /\ SubSeq(pt, 1, 4) = StrPyr \o <<":">>
           /\ LET sub == Split(SubSeq(pt, 5, Len(pt)), ",")
              IN  /\ Len(sub) = 2
                  /\ sub[1] # <<>>
                  /\ \A c \in DOMAIN sub[1] : sub[1][c] \in Digits
                  /\ sub[2] \in {StrMean, StrMax}

\* the levels of a valid pool kind: those of the pyramid, 0 for mean and max
PoolLevels(p) ==
    LET pt == Lower(p)
    IN  IF pt \in {StrMean, StrMax} THEN 0
        ELSE DigitsVal(Split(SubSeq(pt, 5, Len(pt)), ",")[1])

\* every dump was read and stacked, so the call got to its pooling
ReachedPooling ==
    pc = "done" /\ allocated /\ reads = Len(sorted_files) /\ i = Len(sorted_files) - 1

UnknownPoolKindError(r) ==
    /\ r.kind = "raise"
    /\ r.err = "ValueError"
    /\ r.msg \in {"Unknown pool_type", "Unknown pooling type"}

\* C8: for every pool kind that is not a valid one the call fails with the
\* unknown-pool-kind error: no other error is raised and no matrix returned.
C8_InvalidPoolKindFails ==
    (ReachedPooling /\ pool_type.some /\ ~ValidPoolKind(pool_type.v)) =>
        UnknownPoolKindError(ret)

\* C9 (as amended): with a valid pool kind the returned matrix is 2-D with
\* one row, of shape [1, d] for mean and max and of shape
\* [1, d * (2^(levels+1) - 1)] for a pyramid of the given levels.
C9_PooledShape ==
    (pc = "done" /\ ret.kind = "return" /\ pool_type.some
        /\ ValidPoolKind(pool_type.v)) =>
        ret.value.shape =
            <<1, arr.shape[2] * (Pow2(PoolLevels(pool_type.v) + 1) - 1)>>

\* C9 (as stated): with a valid pool kind the returned matrix has shape [1, d].
C9_PooledShapeIsOneByD ==
    (pc = "done" /\ ret.kind = "return" /\ pool_type.some
        /\ ValidPoolKind(pool_type.v)) =>
        ret.value.shape = <<1, arr.shape[2]>>

\* a pyramid of one level over at least two stacked dumps has been returned
C9_Witness ==
    /\ pc = "done"
    /\ ret.kind = "return"
    /\ pool_type.some
    /\ ValidPoolKind(pool_type.v)
    /\ PoolLevels(pool_type.v) = 1
    /\ Len(sorted_files) >= 2
    /\ Len(ret.value.shape) = 2

(***************************************************************************)
(* Properties of the segment utilities                                     *)
(***************************************************************************)
\* C2: a call that does not ask for in-place operation (copy left
\* at its default, False) leaves the caller's X unchanged.
C2_DefaultLeavesInput ==
    (call.op = "segment_unit_scaling" /\ ~call.copy) => call.after = call.X

\* C3: segment_format of an input whose rank is not 2 fails with the
\* invalid-shape error (the ValueError of line 759) in every conversion
\* mode, and returns no converted result.
C3_RankNot2Fails ==
    (call.op = "segment_format" /\ call.step = 1 /\ Ndim(call.X) # 2
        /\ call.mthd \in {"c2b", "b2c", "d2b"}) =>
        call.out.kind = "raise" /\ call.out.err = "ValueError"

\* C4: every entry of segment_iou whose union is 0 is 0.
C4_ZeroUnionIsZero ==
    (call.op = "segment_iou" /\ call.out.kind = "return") =>
        \A r \in 1..call.target.shape[1], c \in 1..call.test.shape[1] :
            IouUnion(call.target.v[r], call.test.v[c]) = FInt(0) =>
                call.out.value.v[r][c] = FInt(0)

\* a segment row [init, end] with end >= init: at least one frame
ValidSegment(row) == row[1].n <= row[2].n

\* a returned segment_iou call on two [., 2] batches of segments of at least
\* one frame each
IouOfValidBatches ==
    /\ call.op = "segment_iou"
    /\ call.out.kind = "return"
    /\ \A r \in 1..call.target.shape[1] : ValidSegment(call.target.v[r])
    /\ \A c \in 1..call.test.shape[1] : ValidSegment(call.test.v[c])

\* C11: for batches A and B of segments of at least one frame, segment_iou
\* with its arguments swapped returns the transpose:
\* iou(A, B)[i][j] = iou(B, A)[j][i] for all i, j.
C11_IouSymmetric ==
    IouOfValidBatches =>
        LET swapped == segment_iou(call.test, call.target)
        IN  /\ swapped.kind = "return"
            /\ swapped.value.shape = <<call.test.shape[1], call.target.shape[1]>>
            /\ \A r \in 1..call.target.shape[1], c \in 1..call.test.shape[1] :
                   call.out.value.v[r][c] = swapped.value.v[c][r]

\* one target against two tests of different sizes, partly overlapping it
C11_Witness ==
    /\ IouOfValidBatches
    /\ call.target.shape[1] = 1
    /\ call.test.shape[1] = 2
    /\ call.out.value.v[1][1] = Frac(1, 2)
    /\ call.out.value.v[1][2] = FInt(1)

\* C13: the IoU of a segment of at least one frame with itself is exactly 1:
\* every diagonal entry of iou(X, X) is 1, and so is every entry whose
\* target row equals its test row.
C13_SelfIouIsOne ==
    IouOfValidBatches =>
        \A r \in 1..call.target.shape[1], c \in 1..call.test.shape[1] :
            call.target.v[r] = call.test.v[c] =>
                call.out.value.v[r][c] = FInt(1)

\* iou(X, X) of a batch holding a two-frame segment
C13_Witness ==
    /\ IouOfValidBatches
    /\ call.target = call.test
    /\ call.target.shape[1] >= 1
    /\ call.target.v[1] = <<FInt(0), FInt(1)>>
    /\ call.out.value.v[1][1] = FInt(1)

\* a c2b conversion of a [n, 2] batch followed by a b2c conversion of its result
RoundTripDone ==
    /\ call.op = "segment_format"
    /\ call.step = 2
    /\ call.mthd1 = "c2b"
    /\ call.mthd = "b2c"
    /\ Ndim(call.first) = 2

\* C5: for integer centers and positive integer durations, odd and even,
\* a c2b conversion followed by a b2c conversion returns X.
C5_RoundTripIsIdentity ==
    RoundTripDone => call.out.kind = "return" /\ call.out.value = call.first

(***************************************************************************)
(* Properties of the pooling helpers                                       *)
(***************************************************************************)
\* a partition of m rows into n regions has a region of no rows
EmptyRegionIn(n, m) ==
    LET e == Edges(n, m) IN \E j \in 1..n : e[j] = e[j + 1]

\* the call of the pooling helper partitions its rows with an empty region
HasEmptyRegion ==
    \/ /\ call.op = "feature_1dpyramid"
       /\ \E l \in 0..call.levels : EmptyRegionIn(Pow2(l), call.x.shape[1])
    \/ /\ call.op = "feature_1dconcat"
       /\ EmptyRegionIn(call.n, call.x.shape[1])

\* C6: whenever a partition boundary yields a zero-row region, mean and max
\* pooling both fail with an error; no output vector is returned.
C6_EmptyRegionFails ==
    (call.op \in {"feature_1dpyramid", "feature_1dconcat"}
        /\ Lower(call.pool) \in {StrMean, StrMax} /\ HasEmptyRegion) =>
        call.out.kind = "raise" /\ call.out.err = "ValueError"

\* one pool over all the rows of x: the mean or the maximum of each column
GlobalPool(x, pt) ==
    LET m == x.shape[1]
    IN  [c \in 1..x.shape[2] |->
            IF pt = StrMean
            THEN FDiv(FSum([r \in 1..m |-> x.v[r][c]]), FInt(m))
            ELSE FMaxOf([r \in 1..m |-> x.v[r][c]])]

\* v divided by its L2 norm sqrt(sum of squares); a vector of norm 0 is
\* left as it is
L2Normalised(v) ==
    LET ss == FSum([c \in DOMAIN v |-> FMul(v[c], v[c])])
    IN  IF ss = FInt(0) THEN v ELSE [c \in DOMAIN v |-> DivSqrt(v[c], ss)]

\* a mean or max pooling call on a matrix of at least one row that asks for
\* one region: a pyramid of levels = 0 or a concat of n = 1
OneRegionCall ==
    /\ call.op \in {"feature_1dpyramid", "feature_1dconcat"}
    /\ call.op = "feature_1dpyramid" => call.levels = 0
    /\ call.op = "feature_1dconcat" => call.n = 1
    /\ call.x.shape[1] >= 1
    /\ Lower(call.pool) \in {StrMean, StrMax}

\* C12 (as amended): feature_1dpyramid with levels = 0 and feature_1dconcat
\* with n = 1 each return, for every x of m >= 1 rows and every unit
\* setting, the single pool (mean or max) over all the rows of x when norm
\* is not set, and that pooled vector divided by its L2 norm (unchanged when
\* the norm is 0) when norm is set; so the two return the same vector of
\* length d for the same x, pool kind and norm.
C12_OneRegionIsGlobalPool ==
    OneRegionCall =>
        LET pooled == GlobalPool(call.x, Lower(call.pool))
        IN  call.out = Return(Arr(<<call.x.shape[2]>>,
                                  IF call.norm THEN L2Normalised(pooled)
                                  ELSE pooled))

\* C12 (as stated): with levels = 0, respectively n = 1, the output is the
\* mean or max over all m >= 1 rows of x, for every setting of norm and unit.
C12_OneRegionIsRawPool ==
    OneRegionCall =>
        call.out = Return(Arr(<<call.x.shape[2]>>,
                              GlobalPool(call.x, Lower(call.pool))))

\* a concat of one chunk over at least two different rows, normalised and
\* unit-scaled: what it returns is not the pooled vector itself
C12_Witness ==
    /\ OneRegionCall
    /\ call.op = "feature_1dconcat"
    /\ call.x.shape[1] >= 2
    /\ call.x.v[1] # call.x.v[2]
    /\ call.norm
    /\ call.unit
    /\ call.out.kind = "return"
    /\ call.out.value.shape = <<FeatDim>>
    /\ call.out.value.v # GlobalPool(call.x, Lower(call.pool))

\* the edges of n regions over m rows start at 0, end at m and never
\* decrease, and every row 0..m-1 lies in exactly one region [lo, hi)
EdgesPartition(n, m) ==
    LET e == Edges(n, m)
    IN  /\ Len(e) = n + 1
        /\ e[1] = 0
        /\ e[n + 1] = m
        /\ \A j \in 1..n : e[j] <= e[j + 1]
        /\ \A r \in 0..(m - 1) :
               Cardinality({j \in 1..n : e[j] <= r /\ r < e[j + 1]}) = 1

\* the loops over levels 0..levels run 2^(levels+1) - 1 times, the idx of
\* run k being k - 1, in level-then-position order
LoopFillsEverySlot(levels) ==
    LET walk == PyramidLoop(levels, 0, 0, 0)
    IN  /\ Len(walk) = Pow2(levels + 1) - 1
        /\ \A k \in DOMAIN walk :
               /\ walk[k].idx = k - 1
               /\ walk[k].j \in 0..(Pow2(walk[k].i) - 1)
               /\ PyramidRegions(levels)[k] = <<walk[k].i, walk[k].j>>
        /\ \A k \in DOMAIN walk, q \in DOMAIN walk :
               k < q => \/ walk[k].i < walk[q].i
                        \/ walk[k].i = walk[q].i /\ walk[k].j < walk[q].j

\* C14: for every row count m >= 0 the edges of every level of a pyramid
\* (n = 2^i regions) and of a concat of n >= 1 chunks are non-decreasing from
\* 0 to m, so the regions are contiguous, disjoint and cover every row once;
\* and the pyramid's region index runs through 0..2^(levels+1) - 2 in
\* level-then-position order, so a call that returns has filled all
\* 2^(levels+1) - 1 slots of d values.
C14_EdgesPartitionRows ==
    /\ (call.op = "feature_1dpyramid" /\ call.levels >= 0) =>
           /\ \A l \in 0..call.levels : EdgesPartition(Pow2(l), call.x.shape[1])
           /\ LoopFillsEverySlot(call.levels)
           /\ call.out.kind = "return" =>
                  call.out.value.shape =
                      <<call.x.shape[2] * (Pow2(call.levels + 1) - 1)>>
    /\ (call.op = "feature_1dconcat" /\ call.n >= 1) =>
           /\ EdgesPartition(call.n, call.x.shape[1])
           /\ call.out.kind = "return" =>
                  call.out.value.shape = <<call.x.shape[2] * call.n>>

\* a returned pyramid of three levels over three rows: the third of its four
\* finest regions is empty
C14_Witness ==
    /\ call.op = "feature_1dpyramid"
    /\ call.levels = 2
    /\ call.x.shape[1] = 3
    /\ Edges(4, 3) = <<0, 1, 2, 2, 3>>
    /\ call.out.kind = "return"
    /\ call.out.value.shape = <<7 * FeatDim>>

(***************************************************************************)
(* Properties of c3d_batch_feature_stacking                                *)
(***************************************************************************)
\* a call on a table of equal-duration segments no shorter than t_size,
\* with feat_size the size of the dumps
BatchOfEqualSegments ==
    /\ call.op = "c3d_batch_feature_stacking"
    /\ \A k \in DOMAIN call.df : call.df[k].duration = call.T
    /\ call.T >= call.t_size
    /\ call.feat_size = FeatDim

\* the number of rows c3d_stack_feature stacks for segment k of the table
RowsStacked(k) ==
    Len(FramesOfInterest(call.df[k].f_init, call.df[k].duration,
                         call.t_size, call.t_stride))

\* C15: in non-persistent mode, for a table of n equal-duration segments the
\* rows stacked for each segment are as many as the second dimension of the
\* allocated array, every slot written holds exactly the matrix stacked for
\* its segment, and the call returns the [n, m, d] array.
C15_SlotsHoldOwnSegment ==
    BatchOfEqualSegments =>
        /\ \A k \in 1..call.n : RowsStacked(k) = call.arr.shape[2]
        /\ \A k \in 1..Len(call.tmps) : call.arr.v[k] = call.tmps[k].v
        /\ pc = "batch_done" =>
               /\ call.out.kind = "return"
               /\ call.out.value.shape = <<call.n, RowsStacked(1), FeatDim>>

(***************************************************************************)
(* Properties of c3d_input_file_generator                                  *)
(***************************************************************************)
\* the start frames i_frame + k * step_size for k = 0..floor((dur - t) / step)
ExpectedClips(row, t_size, step_size) ==
    [k \in 1..(((row.duration - t_size) \div step_size) + 1) |->
        row.i_frame + (k - 1) * step_size]

\* C16: for t_size >= 1 and step_size >= 1, a segment shorter than t_size
\* contributes no clip, and a segment of duration >= t_size contributes
\* exactly the floor((duration - t_size) / step_size) + 1 start frames
\* i_frame + k * step_size, every clip ending inside its segment
\* (start + t_size <= i_frame + duration); they are the frames that
\* c3d_batch_feature_stacking requests for that segment with
\* range(f_init, f_init + duration - t_size + 1, t_stride).
C16_ClipsOfSegment ==
    (call.op = "c3d_input_file_generator" /\ call.out.kind = "return") =>
        \A k \in DOMAIN call.csv.rows :
            LET row == call.csv.rows[k]
                got == call.out.clips[k]
            IN  IF row.duration < call.t_size THEN got = <<>>
                ELSE /\ got = ExpectedClips(row, call.t_size, call.step_size)
                     /\ \A c \in DOMAIN got :
                            got[c] + call.t_size <= row.i_frame + row.duration
                     /\ got = FramesOfInterest(row.i_frame, row.duration,
                                               call.t_size, call.step_size)
                     /\ \A c \in DOMAIN got :
                            \E w \in DOMAIN call.out.file :
                                /\ call.out.file[w][1] = row.video
                                /\ call.out.file[w][2] = got[c]

\* a table of a skipped segment and a kept one of two clips, the second
\* clip ending on the last frame of its segment
C16_Witness ==
    /\ call.op = "c3d_input_file_generator"
    /\ call.out.kind = "return"
    /\ Len(call.csv.rows) = 2
    /\ call.csv.rows[1].duration < call.t_size
    /\ call.step_size = 1
    /\ call.out.clips[1] = <<>>
    /\ Len(call.out.clips[2]) = 2
    /\ call.out.clips[2][2] + call.t_size
           = call.csv.rows[2].i_frame + call.csv.rows[2].duration

(***************************************************************************)
(* Properties of c3d_read_feature                                          *)
(***************************************************************************)
\* C10 (as amended): a dump is accepted when it holds 5 header integers
\* followed by at least product(header) values: the call returns the header
\* and the first product(header) values and ignores what follows them; a
\* file with fewer than 5 integers or fewer values than declared fails with
\* EOFError.
C10_AcceptsEnoughValues ==
    (call.op = "c3d_read_feature" /\ call.file.exists) =>
        LET w == call.file.words
        IN  IF Len(w) < 5 \/ Len(w) - 5 < Product(SubSeq(w, 1, 5))
            THEN call.out.kind = "raise" /\ call.out.err = "EOFError"
            ELSE /\ call.out.kind = "return"
                 /\ call.out.value.s = SubSeq(w, 1, 5)
                 /\ call.out.value.data =
                        [j \in 1..Product(SubSeq(w, 1, 5)) |-> FInt(w[5 + j])]

\* C10 (as stated): a dump is accepted only when exactly product(header)
\* values follow its 5 header integers.
C10_AcceptsOnlyExact ==
    (call.op = "c3d_read_feature" /\ call.file.exists) =>
        (call.out.kind = "return" <=>
            /\ Len(call.file.words) >= 5
            /\ Len(call.file.words) - 5 = Product(SubSeq(call.file.words, 1, 5)))

\* a dump declaring two values and holding two has been read
C10_Witness ==
    /\ call.op = "c3d_read_feature"
    /\ call.file.exists
    /\ Len(call.file.words) = 7
    /\ Product(SubSeq(call.file.words, 1, 5)) = 2
    /\ call.out.kind = "return"
    /\ Len(call.out.value.data) = 2

====
